---- MODULE Spec2Model ----
(***************************************************************************)
(* Model of gamegraphicsjs:                                                *)
(*   - util/image-planar.js : fromPlanar / toPlanar bit-plane codec        *)
(*   - formats/index.js     : ImageHandler.checkLimits and the             *)
(*                            GameGraphics handler registry                *)
(*                                                                         *)
(* Typed arrays and plain arrays are modelled as sequences; the code's     *)
(* 0-based index k is element k+1 of the sequence.                         *)
(***************************************************************************)
EXTENDS Integers, Sequences, FiniteSets, TLC

(***************************************************************************)
(* Bounds of the model.                                                    *)
(***************************************************************************)
\* Longest input buffer handed to the codec.
MaxLen == 8

\* Byte values the input buffers are built from.  1 is a pixel value of
\* every plane count; 150 (binary 10010110) has bits in both nibbles and
\* differs from its bit reversal, so that the plane mapping and the bit
\* order are both visible in the output.
ByteVals == {1, 150}

\* Plane counts handed to the codec (mono, CGA, EGA, masked EGA, 8 planes).
PlaneCounts == {1, 2, 4, 5, 8}

\* Plane widths handed to the codec: negative, zero, narrower than a byte,
\* byte-planar, and a two-byte row.
PlaneWidths == {-8, 0, 4, 8, 16}

(***************************************************************************)
(* State.                                                                  *)
(***************************************************************************)
VARIABLES
    content,       \* codec: the buffer the caller first handed in
    planes,        \* codec: plane count argument
    planeWidth,    \* codec: plane width argument
    byteOrderMSB,  \* codec: bit order argument
    calls,         \* codec: sequence of codec functions called so far
    ret,           \* codec: what the last call produced
    files,         \* limits: archive.files, a sequence of entries
    limits,        \* limits: this.metadata().limits of the handler
    checked,       \* limits: what the last checkLimits call produced
    fileTypes,     \* registry: the module-level handler array
    reg,           \* registry: the last registry call and its result
    held           \* registry: the array the caller holds from that call

codecVars == <<content, planes, planeWidth, byteOrderMSB, calls, ret>>
limitsVars == <<files, limits, checked>>
registryVars == <<fileTypes, reg, held>>
vars == <<codecVars, limitsVars, registryVars>>

(***************************************************************************)
(* JavaScript arithmetic used by the codec.                                *)
(***************************************************************************)
\* 2^n
RECURSIVE Pow2(_)
Pow2(n) == IF n <= 0 THEN 1 ELSE 2 * Pow2(n - 1)

\* Math.ceil(a / 8) for an integer a (may be negative; -0 is 0).
CeilDiv8(a) == -((-a) \div 8)

\* (data >> k) & 1 for a byte value data and 0 <= k < 32.
Bit(data, k) == (data \div Pow2(k)) % 2

\* v << k for v in {0,1} and 0 <= k < 31.
ShiftLeft(v, k) == v * Pow2(k)

\* a | b for non-negative integers.
RECURSIVE BitOr(_, _)
BitOr(a, b) ==
    IF a = 0 THEN b
    ELSE IF b = 0 THEN a
    ELSE (IF a % 2 = 1 \/ b % 2 = 1 THEN 1 ELSE 0) + 2 * BitOr(a \div 2, b \div 2)

\* new Uint8Array(n): n zero bytes.
ZeroBytes(n) == [k \in 1..n |-> 0]

\* content[idx] used as an operand of >>: a read outside the array gives
\* undefined, and undefined >> k is 0.
ReadByte(buf, idx) == IF idx \in 0..(Len(buf) - 1) THEN buf[idx + 1] ELSE 0

\* out[idx] |= value on a Uint8Array: the stored value is truncated to 8
\* bits, and a store to an index outside the array (or to NaN) is ignored.
OrInto(out, idx, value) ==
    IF idx \in 0..(Len(out) - 1)
    THEN [out EXCEPT ![idx + 1] = BitOr(@, value) % 256]
    ELSE out

\* An index expression that evaluated to NaN: never a valid element index.
NaNIndex == -1

(***************************************************************************)
(* fromPlanar (util/image-planar.js).                                      *)
(*                                                                         *)
(* The loops carry st = [out, outpos, writes, i, b]: the output array, the *)
(* output window position, the number of `out[...] |= value` statements    *)
(* executed so far, and the two loop counters.                             *)
(***************************************************************************)
\* Variant of fromPlanarBits with the two bit orders exchanged.
RECURSIVE fromPlanarBits_SwappedOrder(_, _, _, _, _)
fromPlanarBits_SwappedOrder(st, buf, plane, pw, msb) ==
    IF ~(st.b < pw) THEN st
    ELSE LET srcByteOffset == st.b \div 8
             srcBit == IF msb THEN st.b % 8 ELSE 7 - (st.b % 8)
             data == ReadByte(buf, st.i + srcByteOffset)
             value == ShiftLeft(Bit(data, srcBit), plane)
         IN fromPlanarBits_SwappedOrder(
                [st EXCEPT !.out = OrInto(@, st.outpos + st.b, value),
                           !.writes = @ + 1,
                           !.b = @ + 1],
                buf, plane, pw, msb)

\* Inner loop: for (let b = 0; b < planeWidth; b++) { ... }
RECURSIVE fromPlanarBits(_, _, _, _, _)
fromPlanarBits(st, buf, plane, pw, msb) ==
    IF ~(st.b < pw) THEN st
    ELSE LET srcByteOffset == st.b \div 8
             srcBit == IF msb THEN 7 - (st.b % 8) ELSE st.b % 8
             data == ReadByte(buf, st.i + srcByteOffset)
             value == ShiftLeft(Bit(data, srcBit), plane)
         IN fromPlanarBits(
                [st EXCEPT !.out = OrInto(@, st.outpos + st.b, value),
                           !.writes = @ + 1,
                           !.b = @ + 1],
                buf, plane, pw, msb)

\* Variant of fromPlanarStrides that advances outpos after every plane.
RECURSIVE fromPlanarStrides_AdvanceEveryPlane(_, _, _, _, _, _)
fromPlanarStrides_AdvanceEveryPlane(st, buf, np, pw, msb, widthBytes) ==
    IF ~(st.i < Len(buf)) THEN st
    ELSE LET plane == (st.i \div widthBytes) % np
             st1 == fromPlanarBits([st EXCEPT !.b = 0], buf, plane, pw, msb)
             st2 == [st1 EXCEPT !.outpos = @ + pw]
         IN fromPlanarStrides_AdvanceEveryPlane(
                [st2 EXCEPT !.i = @ + widthBytes], buf, np, pw, msb, widthBytes)

\* Outer loop: for (let i = 0; i < content.length; i += widthBytes) { ... }
RECURSIVE fromPlanarStrides(_, _, _, _, _, _)
fromPlanarStrides(st, buf, np, pw, msb, widthBytes) ==
    IF ~(st.i < Len(buf)) THEN st
    ELSE LET plane == (st.i \div widthBytes) % np
             st1 == fromPlanarBits([st EXCEPT !.b = 0], buf, plane, pw, msb)
             st2 == IF plane = np - 1
                    THEN [st1 EXCEPT !.outpos = @ + pw]
                    ELSE st1
         IN fromPlanarStrides(
                [st2 EXCEPT !.i = @ + widthBytes], buf, np, pw, msb, widthBytes)

\* The loop state on entry to either function's outer loop.
LoopStart(out0) == [out |-> out0, outpos |-> 0, writes |-> 0, i |-> 0, b |-> 0]

\* Variant of fromPlanar that returns the zero-filled array for a bad width.
fromPlanar_ReturnsOnBadWidth(buf, np, pw, msb) ==
    LET out0 == ZeroBytes((Len(buf) * 8) \div np)
        widthBytes == CeilDiv8(pw)
    IN IF widthBytes <= 0
       THEN [threw |-> FALSE, out |-> out0, writes |-> 0]
       ELSE LET st == fromPlanarStrides(LoopStart(out0), buf, np, pw, msb,
                                        widthBytes)
            IN [threw |-> FALSE, out |-> st.out, writes |-> st.writes]

\* The call as a whole.  threw = TRUE models `throw new Error(...)`: no
\* array is returned.
fromPlanar(buf, np, pw, msb) ==
    LET out0 == ZeroBytes((Len(buf) * 8) \div np)
        widthBytes == CeilDiv8(pw)
    IN IF widthBytes <= 0
       THEN [threw |-> TRUE, out |-> <<>>, writes |-> 0]
       ELSE LET st == fromPlanarStrides(LoopStart(out0), buf, np, pw, msb,
                                        widthBytes)
            IN [threw |-> FALSE, out |-> st.out, writes |-> st.writes]

(***************************************************************************)
(* toPlanar (util/image-planar.js).  Same loop state as fromPlanar.        *)
(***************************************************************************)
\* JavaScript's remainder `a % n` for a >= 0 and n # 0: the result has the
\* sign of the dividend.
JsRem(a, n) == a % (IF n < 0 THEN -n ELSE n)

\* Inner loop: for (let b = 0; b < planes; b++) { ... }
RECURSIVE toPlanarPlanes(_, _, _, _, _, _)
toPlanarPlanes(st, data, np, widthBytes, pixelByte, pixelBit) ==
    IF ~(st.b < np) THEN st
    ELSE LET val == ShiftLeft(Bit(data, st.b), pixelBit)
             \* widthBytes = 0 makes pixelByte NaN, and so the index
             idx == IF widthBytes = 0 THEN NaNIndex
                    ELSE st.outpos + pixelByte + st.b * widthBytes
         IN toPlanarPlanes(
                [st EXCEPT !.out = OrInto(@, idx, val),
                           !.writes = @ + 1,
                           !.b = @ + 1],
                data, np, widthBytes, pixelByte, pixelBit)

\* Outer loop: for (let i = 0; i < content.length; i++) { ... }
RECURSIVE toPlanarPixels(_, _, _, _, _, _)
toPlanarPixels(st, buf, np, pw, msb, widthBytes) ==
    IF ~(st.i < Len(buf)) THEN st
    ELSE LET pixelByte == IF widthBytes = 0 THEN NaNIndex
                          ELSE JsRem(st.i \div 8, widthBytes)
             pixelBit == IF msb THEN 7 - (st.i % 8) ELSE st.i % 8
             data == buf[st.i + 1]
             st1 == toPlanarPlanes([st EXCEPT !.b = 0], data, np, widthBytes,
                                   pixelByte, pixelBit)
             \* i % planeWidth is NaN for planeWidth = 0 and non-negative
             \* for planeWidth < 0, so only a positive width can match
             endOfRun == pw > 0 /\ (st.i % pw) = pw - 1
             st2 == IF endOfRun
                    THEN [st1 EXCEPT !.outpos = @ + np * widthBytes]
                    ELSE st1
         IN toPlanarPixels([st2 EXCEPT !.i = @ + 1], buf, np, pw, msb, widthBytes)

\* The call as a whole: there is no throw statement in toPlanar.
toPlanar(buf, np, pw, msb) ==
    LET out0 == ZeroBytes((Len(buf) * np) \div 8)
        widthBytes == CeilDiv8(pw)
        st == toPlanarPixels(LoopStart(out0), buf, np, pw, msb, widthBytes)
    IN [threw |-> FALSE, out |-> st.out, writes |-> st.writes]

(***************************************************************************)
(* ImageHandler.checkLimits (formats/index.js).                            *)
(*                                                                         *)
(* A limit is [set, val]: set = FALSE is the property left `undefined`.    *)
(* An entry is [name, nativeSize, content]; content is what getContent()   *)
(* returns.  An issue string is modelled by the values interpolated into   *)
(* it.  The loops carry st = [issues, warnings, files]: the issue array,   *)
(* the Debug.warn log, and the archive's entries as the code leaves them.  *)
(***************************************************************************)
\* Most entries in an archive.
MaxFiles == 2

Unset == [set |-> FALSE, val |-> 0]
LimitVals == {Unset} \cup {[set |-> TRUE, val |-> v] : v \in {0, 1, 2}}

Names == {"", "A", "AB.C"}
Entries == [name : Names, nativeSize : {0, 3}, content : {<<>>, <<7, 7, 7>>}]
Archives == UNION {[1..n -> Entries] : n \in 0..MaxFiles}

\* `if (limit)`: undefined and 0 are both falsy.
Truthy(limit) == limit.set /\ limit.val # 0

FileCountIssue(count, max) ==
    [kind |-> "fileCount", have |-> count, max |-> max, name |-> ""]

FilenameLenIssue(file, max) ==
    [kind |-> "filenameLen", have |-> Len(file.name), max |-> max,
     name |-> file.name]

\* if (limits.maxFileCount && (archive.files.length > limits.maxFileCount))
checkFileCount(st, lim) ==
    IF Truthy(lim.maxFileCount) /\ Len(st.files) > lim.maxFileCount.val
    THEN [st EXCEPT !.issues =
              Append(@, FileCountIssue(Len(st.files), lim.maxFileCount.val))]
    ELSE st

\* archive.files.forEach(file => { if (file.name.length > ...) ... })
RECURSIVE checkFilenameLoop(_, _, _)
checkFilenameLoop(st, lim, k) ==
    IF k > Len(st.files) THEN st
    ELSE LET file == st.files[k]
             st1 == IF Len(file.name) > lim.maxFilenameLen.val
                    THEN [st EXCEPT !.issues =
                              Append(@, FilenameLenIssue(file, lim.maxFilenameLen.val))]
                    ELSE st
         IN checkFilenameLoop(st1, lim, k + 1)

\* if (limits.maxFilenameLen) { archive.files.forEach(...) }
checkFilenames(st, lim) ==
    IF Truthy(lim.maxFilenameLen) THEN checkFilenameLoop(st, lim, 1) ELSE st

\* Variant of checkNativeSizeLoop that repairs the unset size it warns of.
RECURSIVE checkNativeSizeLoop_SetsSize(_, _)
checkNativeSizeLoop_SetsSize(st, k) ==
    IF k > Len(st.files) THEN st
    ELSE LET file == st.files[k]
             st1 == IF file.nativeSize = 0
                    THEN LET fileContent == file.content
                         IN IF Len(fileContent) # 0
                            THEN [st EXCEPT !.warnings = Append(@, file.name),
                                            !.files[k].nativeSize = Len(fileContent)]
                            ELSE st
                    ELSE st
         IN checkNativeSizeLoop_SetsSize(st1, k + 1)

\* archive.files.forEach(file => { if (file.nativeSize === 0) ... })
RECURSIVE checkNativeSizeLoop(_, _)
checkNativeSizeLoop(st, k) ==
    IF k > Len(st.files) THEN st
    ELSE LET file == st.files[k]
             st1 == IF file.nativeSize = 0
                    THEN LET fileContent == file.content
                         IN IF Len(fileContent) # 0
                            THEN [st EXCEPT !.warnings = Append(@, file.name)]
                            ELSE st
                    ELSE st
         IN checkNativeSizeLoop(st1, k + 1)

\* The call as a whole: returns the issues; warnings and files are its
\* effects on the log and on the argument.
checkLimits(archiveFiles, lim) ==
    LET st0 == [issues |-> <<>>, warnings |-> <<>>, files |-> archiveFiles]
        st1 == checkFileCount(st0, lim)
        st2 == checkFilenames(st1, lim)
        st3 == checkNativeSizeLoop(st2, 1)
    IN [returned |-> TRUE, issues |-> st3.issues, warnings |-> st3.warnings,
        files |-> st3.files]

(***************************************************************************)
(* GameGraphics registry (formats/index.js).                               *)
(*                                                                         *)
(* A handler is named by its metadata().id.  The handlers' identify()      *)
(* functions live in the format modules; here a content is the function    *)
(* conf that gives, for each handler, what its identify() returns on it:   *)
(* "true", "false" or "undefined".                                         *)
(***************************************************************************)
InitialFileTypes ==
    <<"img-raw-8bpp-linear", "img-png", "pal-vga-6bit", "pal-vga-8bit">>

Handlers == {InitialFileTypes[k] : k \in 1..Len(InitialFileTypes)}

Confidence == {"true", "false", "undefined"}
Contents == [Handlers -> Confidence]

\* Ids a caller asks getHandler for: the registered ones and a foreign one.
TypeArgs == Handlers \cup {"img-vga"}

\* fileTypes.find(x => type === x.metadata().id); "undefined" if none.
RECURSIVE getHandlerFind(_, _, _)
getHandlerFind(types, type, k) ==
    IF k > Len(types) THEN "undefined"
    ELSE IF type = types[k] THEN types[k]
    ELSE getHandlerFind(types, type, k + 1)

getHandler(types, type) == getHandlerFind(types, type, 1)

\* Variant of findHandlerSome that keeps iterating after a definite match.
RECURSIVE findHandlerSome_NoEarlyExit(_, _, _, _)
findHandlerSome_NoEarlyExit(st, types, conf, k) ==
    IF k > Len(types) THEN st
    ELSE LET x == types[k]
             confidence == conf[x]
             st1 == [st EXCEPT !.identified = Append(@, x)]
         IN IF confidence = "true"
            THEN findHandlerSome_NoEarlyExit([st1 EXCEPT !.handlers = <<x>>],
                                             types, conf, k + 1)
            ELSE IF confidence = "undefined"
            THEN findHandlerSome_NoEarlyExit(
                     [st1 EXCEPT !.handlers = Append(@, x)], types, conf, k + 1)
            ELSE findHandlerSome_NoEarlyExit(st1, types, conf, k + 1)

\* Variant of findHandlerSome that puts each candidate at the front.
RECURSIVE findHandlerSome_Unshift(_, _, _, _)
findHandlerSome_Unshift(st, types, conf, k) ==
    IF k > Len(types) THEN st
    ELSE LET x == types[k]
             confidence == conf[x]
             st1 == [st EXCEPT !.identified = Append(@, x)]
         IN IF confidence = "true"
            THEN [st1 EXCEPT !.handlers = <<x>>]
            ELSE IF confidence = "undefined"
            THEN findHandlerSome_Unshift(
                     [st1 EXCEPT !.handlers = <<x>> \o @], types, conf, k + 1)
            ELSE findHandlerSome_Unshift(st1, types, conf, k + 1)

\* fileTypes.some(x => { ... }) of findHandler.  st = [handlers, identified]:
\* the local array, and the handlers whose identify() has been invoked, in
\* invocation order.
RECURSIVE findHandlerSome(_, _, _, _)
findHandlerSome(st, types, conf, k) ==
    IF k > Len(types) THEN st
    ELSE LET x == types[k]
             confidence == conf[x]
             st1 == [st EXCEPT !.identified = Append(@, x)]
         IN IF confidence = "true"
            THEN [st1 EXCEPT !.handlers = <<x>>]      \* return true: exit loop
            ELSE IF confidence = "undefined"
            THEN findHandlerSome([st1 EXCEPT !.handlers = Append(@, x)],
                                 types, conf, k + 1)
            ELSE findHandlerSome(st1, types, conf, k + 1)

findHandler(types, conf) ==
    findHandlerSome([handlers |-> <<>>, identified |-> <<>>], types, conf, 1)

\* listHandlers() returns the fileTypes array itself, not a copy: the
\* caller's reference is to the registry's own array.
listHandlers == [kind |-> "fileTypes", arr |-> <<>>]

\* The array a caller's reference denotes.
HeldArray == IF held.kind = "fileTypes" THEN fileTypes ELSE held.arr

\* Array.prototype.pop and reverse, as a caller may apply to an array.
Pop(arr) == SubSeq(arr, 1, Len(arr) - 1)
Reverse(arr) == [k \in 1..Len(arr) |-> arr[Len(arr) + 1 - k]]

(***************************************************************************)
(* State machines.  Each component is exercised by its own specification;  *)
(* the variables of the other components stay at their idle values.        *)
(***************************************************************************)
Buffers == UNION {[1..n -> ByteVals] : n \in 0..MaxLen}

NoLimits == [maxFilenameLen |-> Unset, maxFileCount |-> Unset]
NotChecked == [returned |-> FALSE, issues |-> <<>>, warnings |-> <<>>,
               before |-> <<>>]

NoContent == [h \in Handlers |-> "false"]
NoCall == [op |-> "none", type |-> "", conf |-> NoContent,
           result |-> "undefined", handlers |-> <<>>, identified |-> <<>>]
NoArray == [kind |-> "none", arr |-> <<>>]

CodecIdle ==
    /\ content = <<>>
    /\ planes = 1
    /\ planeWidth = 8
    /\ byteOrderMSB = TRUE
    /\ calls = <<>>
    /\ ret = [threw |-> FALSE, out |-> <<>>, writes |-> 0]

LimitsIdle ==
    /\ files = <<>>
    /\ limits = NoLimits
    /\ checked = NotChecked

RegistryIdle ==
    /\ fileTypes = InitialFileTypes
    /\ reg = NoCall
    /\ held = NoArray

(* ---- codec: a caller picks arguments and a buffer, calls one codec     *)
(* function on it, and then the other one on the result (a round trip in  *)
(* either direction). ---- *)
InitCodec ==
    /\ content \in Buffers
    /\ planes \in PlaneCounts
    /\ planeWidth \in PlaneWidths
    /\ byteOrderMSB \in BOOLEAN
    /\ calls = <<>>
    /\ ret = [threw |-> FALSE, out |-> content, writes |-> 0]

\* fromPlanar on the buffer in hand: first, or second after toPlanar.
FromPlanarCall ==
    /\ calls \in {<<>>, <<"toPlanar">>}
    /\ ~ret.threw
    /\ ret' = fromPlanar(ret.out, planes, planeWidth, byteOrderMSB)
    /\ calls' = Append(calls, "fromPlanar")
    /\ UNCHANGED <<content, planes, planeWidth, byteOrderMSB>>
    /\ UNCHANGED <<limitsVars, registryVars>>

\* toPlanar on the buffer in hand: first, or second after fromPlanar.
ToPlanarCall ==
    /\ calls \in {<<>>, <<"fromPlanar">>}
    /\ ~ret.threw
    /\ ret' = toPlanar(ret.out, planes, planeWidth, byteOrderMSB)
    /\ calls' = Append(calls, "toPlanar")
    /\ UNCHANGED <<content, planes, planeWidth, byteOrderMSB>>
    /\ UNCHANGED <<limitsVars, registryVars>>

Init == InitCodec /\ LimitsIdle /\ RegistryIdle
Next == FromPlanarCall \/ ToPlanarCall
Spec == Init /\ [][Next]_vars

(* ---- limits: a handler with some limits checks some archive. ---- *)
InitLimits ==
    /\ files \in Archives
    /\ limits \in [maxFilenameLen : LimitVals, maxFileCount : LimitVals]
    /\ checked = NotChecked

\* checkLimits(archive): the archive's entries afterwards are whatever the
\* call left in them.
CheckLimitsCall ==
    /\ ~checked.returned
    /\ LET r == checkLimits(files, limits)
       IN /\ checked' = [returned |-> r.returned, issues |-> r.issues,
                         warnings |-> r.warnings, before |-> files]
          /\ files' = r.files
    /\ UNCHANGED limits
    /\ UNCHANGED <<codecVars, registryVars>>

LimitsInit == InitLimits /\ CodecIdle /\ RegistryIdle
LimitsNext == CheckLimitsCall
LimitsSpec == LimitsInit /\ [][LimitsNext]_vars

(* ---- registry: callers call the three lookup functions in any order   *)
(* and do what they like with the arrays they get back. ---- *)
GetHandlerCall ==
    \E type \in TypeArgs :
        /\ reg' = [NoCall EXCEPT !.op = "getHandler", !.type = type,
                                 !.result = getHandler(fileTypes, type)]
        /\ UNCHANGED <<fileTypes, held>>
        /\ UNCHANGED <<codecVars, limitsVars>>

FindHandlerCall ==
    \E conf \in Contents :
        LET r == findHandler(fileTypes, conf)
        IN /\ reg' = [NoCall EXCEPT !.op = "findHandler", !.conf = conf,
                                    !.handlers = r.handlers,
                                    !.identified = r.identified]
           /\ held' = [kind |-> "fresh", arr |-> r.handlers]
           /\ UNCHANGED fileTypes
           /\ UNCHANGED <<codecVars, limitsVars>>

ListHandlersCall ==
    /\ reg' = [NoCall EXCEPT !.op = "listHandlers", !.handlers = fileTypes]
    /\ held' = listHandlers
    /\ UNCHANGED fileTypes
    /\ UNCHANGED <<codecVars, limitsVars>>

\* The caller stores arr into the array its reference denotes.
CallerStore(arr) ==
    /\ IF held.kind = "fileTypes"
       THEN fileTypes' = arr /\ UNCHANGED held
       ELSE held' = [held EXCEPT !.arr = arr] /\ UNCHANGED fileTypes
    /\ UNCHANGED reg
    /\ UNCHANGED <<codecVars, limitsVars>>

CallerPop ==
    /\ held.kind # "none"
    /\ Len(HeldArray) > 0
    /\ CallerStore(Pop(HeldArray))

CallerReverse ==
    /\ held.kind # "none"
    /\ Len(HeldArray) > 1
    /\ CallerStore(Reverse(HeldArray))

RegistryInit == RegistryIdle /\ CodecIdle /\ LimitsIdle
RegistryNext ==
    \/ GetHandlerCall
    \/ FindHandlerCall
    \/ ListHandlersCall
    \/ CallerPop
    \/ CallerReverse
RegistrySpec == RegistryInit /\ [][RegistryNext]_vars

(***************************************************************************)
(* Properties of the codec (checked under Spec).                           *)
(***************************************************************************)
LastCall == IF calls = <<>> THEN "none" ELSE calls[Len(calls)]

\* The block size of the round-trip law: ceil(planeWidth/8) * planes.
BlockSize == CeilDiv8(planeWidth) * planes

\* Bit of a source byte that holds pixel position b.
SrcBitOf(b) == IF byteOrderMSB THEN 7 - (b % 8) ELSE b % 8

\* 0-based index of the input byte holding position b of plane p, cycle c.
SrcIndex(c, p, b) == (c * planes + p) * CeilDiv8(planeWidth) + (b \div 8)

\* C1 as stated: for planes in {1,2,4,5,8}, every planeWidth > 0, both bit
\* orders and every content whose length is a multiple of
\* ceil(planeWidth/8)*planes, toPlanar(fromPlanar(content)) = content.
C1_RoundTripAnyWidth ==
    (/\ calls = <<"fromPlanar", "toPlanar">>
     /\ planeWidth > 0
     /\ Len(content) % BlockSize = 0)
    => (~ret.threw /\ ret.out = content)

\* C1 amended: the same round-trip law, for every planeWidth that is a
\* positive multiple of 8 (rows without padding bits).
C1_RoundTripByteWidth ==
    (/\ calls = <<"fromPlanar", "toPlanar">>
     /\ planeWidth > 0
     /\ planeWidth % 8 = 0
     /\ Len(content) % BlockSize = 0)
    => (~ret.threw /\ ret.out = content)

\* A five-plane block of mixed bytes has gone through both functions.
C1_Witness ==
    /\ calls = <<"fromPlanar", "toPlanar">>
    /\ planeWidth = 8
    /\ planes = 5
    /\ Len(content) = 5
    /\ content[1] = 150
    /\ content[5] = 1
    /\ ret.out = content

\* C2 as stated: for every planes >= 1, planeWidth > 0 and bit order, and
\* every linear buffer p with values in 0..2^planes-1 whose length is a
\* multiple of planeWidth with length*planes divisible by 8,
\* fromPlanar(toPlanar(p)) = p.
C2_InverseOnLinear ==
    (/\ calls = <<"toPlanar", "fromPlanar">>
     /\ planeWidth > 0
     /\ \A k \in 1..Len(content) : content[k] < Pow2(planes)
     /\ Len(content) % planeWidth = 0
     /\ (Len(content) * planes) % 8 = 0)
    => (~ret.threw /\ ret.out = content)

\* C3: fromPlanar is bit-exact.  Bit p of out[c*planeWidth + b] is the bit
\* of pixel position b in content[(c*planes + p)*widthBytes + floor(b/8)]
\* wherever both indices are inside the arrays, no other output bit is set,
\* and fromPlanar([0xAA, 0x55], 2, 8, true) = [1,2,1,2,1,2,1,2].
C3_FromPlanarBitExact ==
    /\ (calls = <<"fromPlanar">> /\ ~ret.threw) =>
          /\ \A c \in 0..Len(content), p \in 0..(planes - 1),
                b \in 0..(planeWidth - 1) :
                (/\ SrcIndex(c, p, b) < Len(content)
                 /\ c * planeWidth + b < Len(ret.out))
                => Bit(ret.out[c * planeWidth + b + 1], p)
                     = Bit(content[SrcIndex(c, p, b) + 1], SrcBitOf(b))
          /\ \A j \in 0..(Len(ret.out) - 1), q \in 0..7 :
                Bit(ret.out[j + 1], q) = 1
                => /\ q < planes
                   /\ SrcIndex(j \div planeWidth, q, j % planeWidth) < Len(content)
                   /\ Bit(content[SrcIndex(j \div planeWidth, q, j % planeWidth) + 1],
                          SrcBitOf(j % planeWidth)) = 1
    /\ LastCall = "fromPlanar" =>
          fromPlanar(<<170, 85>>, 2, 8, TRUE).out = <<1, 2, 1, 2, 1, 2, 1, 2>>

\* fromPlanar has assembled pixels of several planes over two-byte rows.
C3_Witness ==
    /\ calls = <<"fromPlanar">>
    /\ planes = 4
    /\ planeWidth = 16
    /\ Len(content) = 8
    /\ Len(ret.out) = 16
    /\ \E j \in 1..Len(ret.out) : ret.out[j] \in {7, 11, 13, 14, 15}

\* C7: fromPlanar with planeWidth <= 0 fails with the invalid-argument
\* error for every content, plane count and bit order, returning no buffer
\* and having written no output byte.
C7_FromPlanarRejectsBadWidth ==
    (LastCall = "fromPlanar" /\ planeWidth <= 0)
    => (ret.threw /\ ret.out = <<>> /\ ret.writes = 0)

\* fromPlanar was called on a non-empty buffer with a negative width.
C7_Witness ==
    /\ calls = <<"fromPlanar">>
    /\ planeWidth = -8
    /\ Len(content) = 4
    /\ ret.threw

\* C8 as stated: toPlanar with planeWidth <= 0 fails with the
\* invalid-argument error instead of returning an output buffer.
C8_ToPlanarRejectsBadWidth ==
    (LastCall = "toPlanar" /\ planeWidth <= 0) => ret.threw

(***************************************************************************)
(* Properties of the registry (checked under RegistrySpec).                *)
(***************************************************************************)
\* Positions of the registry whose handler identifies the content of the
\* last findHandler call as a definite match.
DefinitePositions == {k \in 1..Len(fileTypes) : reg.conf[fileTypes[k]] = "true"}

FirstDefinite == CHOOSE k \in DefinitePositions : \A m \in DefinitePositions : k <= m

IsPossible(h) == reg.conf[h] = "undefined"

\* C4: if some handler returns a definite match, findHandler returns the
\* one-element array holding the first such handler in registry order,
\* identify() is invoked in registry order, and it is not invoked on any
\* handler after that first definite match.
C4_FindHandlerShortCircuit ==
    (reg.op = "findHandler" /\ DefinitePositions # {})
    => /\ reg.handlers = <<fileTypes[FirstDefinite]>>
       /\ reg.identified = SubSeq(fileTypes, 1, FirstDefinite)

\* A definite match in second place, behind a possible match and ahead of
\* a possible and another definite match.
C4_Witness ==
    /\ reg.op = "findHandler"
    /\ Len(fileTypes) = 4
    /\ reg.conf[fileTypes[1]] = "undefined"
    /\ reg.conf[fileTypes[2]] = "true"
    /\ reg.conf[fileTypes[3]] = "undefined"
    /\ reg.conf[fileTypes[4]] = "true"
    /\ reg.handlers = <<fileTypes[2]>>

\* C5: if no handler returns a definite match, findHandler returns exactly
\* the handlers that returned a possible match, each once and in registry
\* order (the empty array if there is none), and identify() has been
\* invoked on every handler.
C5_FindHandlerAmbiguity ==
    (reg.op = "findHandler" /\ DefinitePositions = {})
    => /\ reg.handlers = SelectSeq(fileTypes, IsPossible)
       /\ reg.identified = fileTypes

\* Two possible matches with non-matching handlers between and after them.
C5_Witness ==
    /\ reg.op = "findHandler"
    /\ Len(fileTypes) = 4
    /\ reg.conf[fileTypes[1]] = "undefined"
    /\ reg.conf[fileTypes[2]] = "false"
    /\ reg.conf[fileTypes[3]] = "undefined"
    /\ reg.conf[fileTypes[4]] = "false"
    /\ reg.handlers = <<fileTypes[1], fileTypes[3]>>

\* C10 as stated: whatever calls are made and whatever the caller does with
\* the arrays they return, the registry holds the handlers it was built
\* with, in the same order.
C10_RegistryImmutable == fileTypes = InitialFileTypes

(***************************************************************************)
(* Properties of checkLimits (checked under LimitsSpec).                   *)
(***************************************************************************)
IsSet(limit) == limit.set

NameTooLong(file) == Len(file.name) > limits.maxFilenameLen.val

RECURSIVE NameIssues(_)
NameIssues(fs) ==
    IF fs = <<>> THEN <<>>
    ELSE <<FilenameLenIssue(Head(fs), limits.maxFilenameLen.val)>>
             \o NameIssues(Tail(fs))

\* C6 as stated: with each limit either absent or set to an integer, the
\* issues are: one file-count issue iff maxFileCount is set and the archive
\* has more entries than that; then, if maxFilenameLen is set, one issue per
\* entry whose name is longer than that, in archive order; nothing else.
C6_IssuesForSetLimits ==
    checked.returned
    => checked.issues =
          (IF IsSet(limits.maxFileCount)
                 /\ Len(checked.before) > limits.maxFileCount.val
           THEN <<FileCountIssue(Len(checked.before), limits.maxFileCount.val)>>
           ELSE <<>>)
          \o (IF IsSet(limits.maxFilenameLen)
              THEN NameIssues(SelectSeq(checked.before, NameTooLong))
              ELSE <<>>)

\* C9: checkLimits returns (it does not raise) for every archive and
\* limits, and leaves the archive's entries, their order, names and
\* declared sizes as they were before the call.
C9_CheckLimitsFrame ==
    (checked # NotChecked) => (checked.returned /\ files = checked.before)

\* A call that reported issues and logged a warning about an entry whose
\* size is unset.
C9_Witness ==
    /\ checked.returned
    /\ Len(files) = 2
    /\ Len(checked.issues) >= 2
    /\ Len(checked.warnings) >= 1
    /\ files[1].nativeSize = 0
    /\ files[1].content # <<>>

====
